---------------------------- MODULE Spec2Model ----------------------------
(***************************************************************************)
(* A model of oscrypto's EMSA-PSS padding engine (oscrypto/_pkcs1.py) and  *)
(* of its TLS handshake introspector (oscrypto/_tls.py).                   *)
(*                                                                         *)
(* Byte strings are sequences of integers in 0..255.  Every function of    *)
(* the two files is an operator computed the way the code computes it;     *)
(* each public function is applied by one action to arguments drawn from   *)
(* bounded sets by the initial predicate of its specification.             *)
(***************************************************************************)
EXTENDS Integers, Sequences, FiniteSets, TLC

VARIABLES
    \* ---- _pkcs1.py: the arguments and results of the PSS calls
    hash_algorithm,   \* the hash name passed to the call
    salt_length,      \* a tagged value: [t |-> "int", v |-> n] or [t |-> "str"]
    key_length,       \* a tagged value, as salt_length
    message,          \* a tagged value: [t |-> "bytes", v |-> seq] or [t |-> "str"]
    encoded,          \* what add_pss_padding returned, or raised
    signature,        \* the candidate handed to verify_pss_padding
    tamper,           \* how the candidate was derived from `encoded`
    verified,         \* what verify_pss_padding returned, or raised
    \* ---- _pkcs1.py: the arguments and result of a direct mgf1 call
    seed,
    mask_length,
    mask,
    \* ---- _tls.py: the handshake buffers (kept as record lists, serialised
    \*      to bytes when a function is called) and the results
    server_handshake,
    client_handshake,
    chain,
    dh_params_length,
    session_info

vars == <<hash_algorithm, salt_length, key_length, message, encoded, signature,
          tamper, verified, seed, mask_length, mask, server_handshake,
          client_handshake, chain, dh_params_length, session_info>>

pssVars == <<hash_algorithm, salt_length, key_length, message, encoded,
             signature, tamper, verified>>

mgfVars == <<seed, mask_length, mask>>

tlsVars == <<server_handshake, client_handshake, chain, dh_params_length,
             session_info>>

-----------------------------------------------------------------------------
(* Bounds of the explored input space.                                     *)

\* key_length ranges over MinKeyLength - 1 .. MinKeyLength + MaxKeyExtra
MaxKeyExtra == 2

\* salt_length ranges over -1 .. MaxSaltLen
MaxSaltLen == 2

\* one key length large enough for sha512 with a salt is explored as well
LargeKeyLength == 544

\* a scanned server buffer holds up to MaxRecords records
MaxRecords == 3

\* an extensions block may declare up to ExtSlack bytes more than it holds
ExtSlack == 4

\* mask_length of a direct mgf1 call ranges over -1 .. MaxMaskLen
MaxMaskLen == 70

\* prefix property: mgf1(n) is compared with mgf1(n + k), k in 1 .. MaxGrow
MaxGrow == 3

-----------------------------------------------------------------------------
(* Values and Python's slicing.                                            *)

Min(a, b) == IF a < b THEN a ELSE b

Max(a, b) == IF a > b THEN a ELSE b

BytesVal(v) == [t |-> "bytes", v |-> v]

IntVal(n) == [t |-> "int", v |-> n]

BoolVal(b) == [t |-> "bool", v |-> b]

StrVal == [t |-> "str"]

None == [t |-> "none"]

Raise == [t |-> "raise"]

\* the result of a call that has not been made yet
Pending == [t |-> "pending"]

\* no candidate has been derived yet
NoTamper == [kind |-> "none"]

\* A slice bound as Python normalises it against a length n.
SliceIndex(x, n) == IF x < 0 THEN Max(x + n, 0) ELSE Min(x, n)

\* b[i:j]
Slice(b, i, j) ==
    LET lo == SliceIndex(i, Len(b))
        hi == SliceIndex(j, Len(b))
    IN  IF lo >= hi THEN << >> ELSE SubSeq(b, lo + 1, hi)

\* b[i:]
SliceFrom(b, i) == Slice(b, i, Len(b))

\* b'\x00' * n (the empty string for n <= 0)
Zeros(n) == [i \in 1..n |-> 0]

\* ceil(a / b) for b > 0, as int(math.ceil(a / b)) computes it
CeilDiv(a, b) == IF a % b = 0 THEN a \div b ELSE (a \div b) + 1

RECURSIVE BitXor(_, _, _)
\* a ^ b on the low n bits
BitXor(a, b, n) ==
    IF n = 0 THEN 0
    ELSE ((a + b) % 2) + 2 * BitXor(a \div 2, b \div 2, n - 1)

\* a ^ b on two bytes, by a table of the XOR of two 4-bit halves
NibbleXor == [a \in 0..15 |-> [b \in 0..15 |-> BitXor(a, b, 4)]]

ByteXor(a, b) ==
    16 * NibbleXor[a \div 16][b \div 16] + NibbleXor[a % 16][b % 16]

RECURSIVE BitAnd(_, _, _)
\* a & b on the low n bits
BitAnd(a, b, n) ==
    IF n = 0 THEN 0
    ELSE ((a % 2) * (b % 2)) + 2 * BitAnd(a \div 2, b \div 2, n - 1)

RECURSIVE Pow2(_)
Pow2(n) == IF n = 0 THEN 1 ELSE 2 * Pow2(n - 1)

-----------------------------------------------------------------------------
(* The hash primitive.  hashlib is outside the repository: it is modelled  *)
(* as a deterministic function from (name, bytes) to a digest of the       *)
(* algorithm's length whose bytes all depend on every input byte.          *)

SupportedHashes == {"sha1", "sha224", "sha256", "sha384", "sha512"}

hash_length(alg) ==
    CASE alg = "sha1"   -> 20
      [] alg = "sha224" -> 28
      [] alg = "sha256" -> 32
      [] alg = "sha384" -> 48
      [] alg = "sha512" -> 64

\* The contribution of input byte i (none past the end hi) to a lane.
LaneTerm(data, i, hi, k, p) ==
    IF i > hi THEN 0
    ELSE ((data[i] + 1) * (((i + k) * (i + k) + k) % p)) % p

RECURSIVE Lane(_, _, _, _, _)
\* One lane of the digest state: the sum over i in lo..hi of
\* (data[i] + 1) * (a position weight), mod p, taken eight bytes at a time.
\* Every input byte enters it.
Lane(data, lo, hi, k, p) ==
    IF lo > hi THEN 0
    ELSE (LaneTerm(data, lo, hi, k, p) + LaneTerm(data, lo + 1, hi, k, p)
          + LaneTerm(data, lo + 2, hi, k, p) + LaneTerm(data, lo + 3, hi, k, p)
          + LaneTerm(data, lo + 4, hi, k, p) + LaneTerm(data, lo + 5, hi, k, p)
          + LaneTerm(data, lo + 6, hi, k, p) + LaneTerm(data, lo + 7, hi, k, p)
          + Lane(data, lo + 8, hi, k, p)) % p

\* hash_func(data).digest()
hash_func(alg, data) ==
    LET n  == hash_length(alg)
        m  == Len(data)
        s1 == (Lane(data, 1, m, 7, 46337) + (m + 1) * n) % 46337
        s2 == (Lane(data, 1, m, 101, 46327) + (m + 3) * (n + 1)) % 46327
        s3 == (Lane(data, 1, m, 1009, 46309) + (m + 5) * (n + 2)) % 46309
    IN  [i \in 1..n |->
            ((((s1 * (2 * i + 1)) % 46337) \div 4)
             + (((s2 * (i + 13)) % 46327) \div 2)
             + ((s3 * (3 * i + 5)) % 46309)) % 256]

HashNames == SupportedHashes \cup {"md5"}

IdlePss ==
    /\ hash_algorithm = "sha1"
    /\ salt_length = IntVal(0)
    /\ key_length = IntVal(0)
    /\ message = BytesVal(<< >>)
    /\ encoded = Pending
    /\ signature = Pending
    /\ tamper = NoTamper
    /\ verified = Pending

IdleMgf ==
    /\ seed = << >>
    /\ mask_length = 0
    /\ mask = Pending

IdleTls ==
    /\ server_handshake = << >>
    /\ client_handshake = << >>
    /\ chain = Pending
    /\ dh_params_length = Pending
    /\ session_info = Pending

\* struct.Struct(b'>I').pack(counter)
pack(counter) ==
    << (counter \div 16777216) % 256, (counter \div 65536) % 256,
       (counter \div 256) % 256, counter % 256 >>

-----------------------------------------------------------------------------
(* mgf1                                                                    *)

RECURSIVE mgf1_loop(_, _, _, _, _)
\* for counter in range(0, iterations): output += hash_func(seed + b).digest()
mgf1_loop(alg, sd, counter, iterations, output) ==
    IF counter >= iterations THEN output
    ELSE mgf1_loop(alg, sd, counter + 1, iterations,
                   output \o hash_func(alg, sd \o pack(counter)))

mgf1_bad(alg, sd, n) ==
    IF n < 1 THEN Raise
    ELSE IF alg \notin SupportedHashes THEN Raise
    ELSE LET iterations == CeilDiv(n, hash_length(alg))
         IN  BytesVal(Slice(mgf1_loop(alg, sd, 1, iterations + 1, << >>), 0, n))

\* mgf1(hash_algorithm, seed, mask_length); seed is a byte string and
\* mask_length an integer in every call the model makes.
mgf1(alg, sd, n) ==
    IF n < 1 THEN Raise
    ELSE IF alg \notin SupportedHashes THEN Raise
    ELSE LET iterations == CeilDiv(n, hash_length(alg))
         IN  BytesVal(Slice(mgf1_loop(alg, sd, 0, iterations, << >>), 0, n))

-----------------------------------------------------------------------------
(* The helpers of oscrypto/_int.py and oscrypto/util.py.  A non-negative   *)
(* integer of arbitrary size is kept as its big-endian base-256 digits     *)
(* without leading zeros.                                                  *)

\* b without its leading zero bytes
StripZeros(b) ==
    LET nz == { i \in 1..Len(b) : b[i] # 0 }
    IN  IF nz = {} THEN << >>
        ELSE SubSeq(b, CHOOSE i \in nz : \A j \in nz : i <= j, Len(b))

\* int_from_bytes(value)
int_from_bytes(b) == StripZeros(b)

\* x ^ y on two such integers
int_xor(x, y) ==
    LET n  == Max(Len(x), Len(y))
        px == Zeros(n - Len(x)) \o x
        py == Zeros(n - Len(y)) \o y
    IN  StripZeros([i \in 1..n |-> ByteXor(px[i], py[i])])

\* int_to_bytes(value): the digits, none for zero
int_to_bytes(x) == x

\* fill_width(bytes_, width): left-pad with zero bytes up to width
fill_width(b, width) == Zeros(width - Len(b)) \o b

\* constant_compare(a, b) on two byte strings
constant_compare(a, b) ==
    /\ Len(a) = Len(b)
    /\ \A i \in 1..Len(a) : ByteXor(a[i], b[i]) = 0

-----------------------------------------------------------------------------
(* add_pss_padding                                                         *)

MinKeyLength == 512

\* em_len = int(math.ceil(em_bits / 8)), em_bits = key_length - 1
em_len_of(kl) == CeilDiv(kl - 1, 8)

\* zero_bits = (8 * em_len) - em_bits
zero_bits_of(kl) == (8 * em_len_of(kl)) - (kl - 1)

\* left_int_mask = int(('0' * zero_bits) + ('1' * (8 - zero_bits)), 2)
left_int_mask(zero_bits) == Pow2(8 - zero_bits) - 1

\* if left_int_mask != 255:
\*     b = chr_cls(left_int_mask & ord(b[0:1])) + b[1:]
\* (ord of an empty string raises; both callers pass a non-empty one)
clear_left_bits(b, zero_bits) ==
    IF left_int_mask(zero_bits) # 255
    THEN << BitAnd(left_int_mask(zero_bits), b[1], 8) >> \o SliceFrom(b, 1)
    ELSE b

xor_db_unfilled(db, db_mask) ==
    int_to_bytes(int_xor(int_from_bytes(db), int_from_bytes(db_mask)))

\* masked_db = int_to_bytes(int_from_bytes(db) ^ int_from_bytes(db_mask))
\* masked_db = fill_width(masked_db, len(db_mask))
xor_db(db, db_mask) ==
    fill_width(int_to_bytes(int_xor(int_from_bytes(db), int_from_bytes(db_mask))),
               Len(db_mask))

\* What os.urandom may return for the call's salt_length.
SaltBytes == {0, 255}

urandom(sl) ==
    IF sl.t = "int" /\ sl.v > 0
    THEN { [i \in 1..sl.v |-> b] : b \in SaltBytes }
    ELSE { << >> }

\* add_pss_padding(hash_algorithm, salt_length, key_length, message), `rnd`
\* being what os.urandom(salt_length) returns if it is called.
add_pss_padding(alg, sl, kl, msg, rnd) ==
    IF msg.t # "bytes" THEN Raise
    ELSE IF sl.t # "int" THEN Raise
    ELSE IF sl.v < 0 THEN Raise
    ELSE IF kl.t # "int" THEN Raise
    ELSE IF kl.v < MinKeyLength THEN Raise
    ELSE IF alg \notin SupportedHashes THEN Raise
    ELSE
      LET em_len         == em_len_of(kl.v)
          message_digest == hash_func(alg, msg.v)
          hash_len       == Len(message_digest)
      IN
      IF em_len < hash_len + sl.v + 2 THEN Raise
      ELSE
        LET salt           == IF sl.v > 0 THEN rnd ELSE << >>
            m_prime        == Zeros(8) \o message_digest \o salt
            m_prime_digest == hash_func(alg, m_prime)
            padding        == Zeros(em_len - sl.v - hash_len - 2)
            db             == padding \o <<1>> \o salt
            db_mask        == mgf1(alg, m_prime_digest, em_len - hash_len - 1)
        IN
        IF db_mask.t = "raise" THEN Raise
        ELSE
          LET masked_db == xor_db(db, db_mask.v)
              zero_bits == zero_bits_of(kl.v)
          IN  BytesVal(clear_left_bits(masked_db, zero_bits)
                       \o m_prime_digest \o <<188>>)

-----------------------------------------------------------------------------
(* verify_pss_padding                                                      *)

trailer_unchecked(sig) == TRUE

\* signature[-1:] == b'\xBC'
trailer_ok(sig) == Slice(sig, -1, Len(sig)) = <<188>>

\* verify_pss_padding(hash_algorithm, salt_length, key_length, message,
\*                    signature)
verify_pss_padding(alg, sl, kl, msg, sig) ==
    IF msg.t # "bytes" THEN Raise
    ELSE IF sig.t # "bytes" THEN Raise
    ELSE IF sl.t # "int" THEN Raise
    ELSE IF sl.v < 0 THEN Raise
    ELSE IF alg \notin SupportedHashes THEN Raise
    \* em_bits = key_length - 1 raises a TypeError on a non-number
    ELSE IF kl.t # "int" THEN Raise
    ELSE
      LET em_len           == em_len_of(kl.v)
          zero_bits        == zero_bits_of(kl.v)
          message_digest   == hash_func(alg, msg.v)
          hash_len         == Len(message_digest)
          masked_db_length == em_len - hash_len - 1
          masked_db        == Slice(sig.v, 0, masked_db_length)
          m_prime_digest   == Slice(sig.v, masked_db_length,
                                    masked_db_length + hash_len)
      IN
      IF em_len < hash_len + sl.v + 2 THEN BoolVal(FALSE)
      ELSE IF ~trailer_ok(sig.v) THEN BoolVal(FALSE)
      \* ord(masked_db[0:1]) raises a TypeError on an empty string
      ELSE IF masked_db = << >> THEN Raise
      ELSE IF masked_db[1] \div Pow2(8 - zero_bits) # 0 THEN BoolVal(FALSE)
      ELSE
        LET raw_mask == mgf1(alg, m_prime_digest, em_len - hash_len - 1)
        IN
        IF raw_mask.t = "raise" THEN Raise
        ELSE
          LET db_mask     == clear_left_bits(raw_mask.v, zero_bits)
              xored       == int_to_bytes(int_xor(int_from_bytes(masked_db),
                                                  int_from_bytes(db_mask)))
              db          == IF Len(xored) < Len(masked_db)
                             THEN Zeros(Len(masked_db) - Len(xored)) \o xored
                             ELSE xored
              zero_length == em_len - hash_len - sl.v - 2
              zero_string == Zeros(zero_length)
          IN
          IF ~constant_compare(Slice(db, 0, zero_length), zero_string)
          THEN BoolVal(FALSE)
          ELSE IF Slice(db, zero_length, zero_length + 1) # <<1>>
          THEN BoolVal(FALSE)
          ELSE
            LET salt    == SliceFrom(db, 0 - sl.v)
                m_prime == Zeros(8) \o message_digest \o salt
                h_prime == hash_func(alg, m_prime)
            IN  BoolVal(constant_compare(m_prime_digest, h_prime))

-----------------------------------------------------------------------------
(* The specification of the PSS calls: one add_pss_padding call, then one  *)
(* verify_pss_padding call on a candidate derived from its result.         *)

\* the extra bytes a forger places before a final 0xBC
Extras == { <<0>>, <<7, 9>> }

\* byte string b with bit `pos` flipped (bit 0 is the top bit of byte 0)
FlipBit(b, pos) ==
    LET i == (pos \div 8) + 1
        w == Pow2(7 - (pos % 8))
    IN  [b EXCEPT ![i] = ByteXor(b[i], w)]

\* candidates that do not depend on an encoded message
ArbitraryCandidates ==
    { [sig |-> StrVal, how |-> [kind |-> "arbitrary"]] } \cup
    { [sig |-> BytesVal(s), how |-> [kind |-> "arbitrary"]] :
        s \in { << >>, <<188>>, <<0, 188>>, <<1, 2, 3>>, Zeros(70) \o <<188>> } }

\* candidates derived from an encoded message em
DerivedCandidates(em) ==
    { [sig |-> BytesVal(em), how |-> [kind |-> "exact"]] } \cup
    { [sig |-> BytesVal(Slice(em, 0, Len(em) - 1) \o x \o <<188>>),
       how |-> [kind |-> "insert"]] : x \in Extras } \cup
    { [sig |-> BytesVal(em \o x \o <<188>>),
       how |-> [kind |-> "append"]] : x \in Extras } \cup
    { [sig |-> BytesVal(SliceFrom(em, 1)), how |-> [kind |-> "truncate"]],
      [sig |-> BytesVal(Slice(em, 0, Len(em) - 1)),
       how |-> [kind |-> "truncate"]] }

\* candidates that differ from an encoded message em in exactly one bit
FlippedCandidates(em) ==
    { [sig |-> BytesVal(FlipBit(em, p)), how |-> [kind |-> "flip", pos |-> p]] :
        p \in 0..(8 * Len(em) - 1) }

Messages == { BytesVal(<< >>), BytesVal(<<97, 98, 180>>), StrVal }

KeyLengths ==
    { IntVal(k) : k \in (MinKeyLength - 1)..(MinKeyLength + MaxKeyExtra) }
    \cup { IntVal(LargeKeyLength), StrVal }

SaltLengths == { IntVal(n) : n \in -1..MaxSaltLen } \cup { StrVal }

InitPss ==
    /\ hash_algorithm \in HashNames
    /\ salt_length \in SaltLengths
    /\ key_length \in KeyLengths
    /\ message \in Messages
    /\ encoded = Pending
    /\ signature = Pending
    /\ tamper = NoTamper
    /\ verified = Pending
    /\ IdleMgf
    /\ IdleTls

AddPssPadding ==
    /\ encoded = Pending
    /\ verified = Pending
    /\ \E rnd \in urandom(salt_length) :
         encoded' = add_pss_padding(hash_algorithm, salt_length, key_length,
                                    message, rnd)
    /\ UNCHANGED <<hash_algorithm, salt_length, key_length, message, signature,
                   tamper, verified, mgfVars, tlsVars>>

VerifyPssPadding ==
    /\ encoded # Pending
    /\ verified = Pending
    /\ \E c \in ArbitraryCandidates \cup
                (IF encoded.t = "bytes" THEN DerivedCandidates(encoded.v)
                 ELSE {}) :
         /\ signature' = c.sig
         /\ tamper' = c.how
         /\ verified' = verify_pss_padding(hash_algorithm, salt_length,
                                           key_length, message, c.sig)
    /\ UNCHANGED <<hash_algorithm, salt_length, key_length, message, encoded,
                   mgfVars, tlsVars>>

\* verify_pss_padding on an encoded message with one bit flipped
VerifyFlipped ==
    /\ encoded # Pending
    /\ encoded.t = "bytes"
    /\ verified = Pending
    /\ \E c \in FlippedCandidates(encoded.v) :
         /\ signature' = c.sig
         /\ tamper' = c.how
         /\ verified' = verify_pss_padding(hash_algorithm, salt_length,
                                           key_length, message, c.sig)
    /\ UNCHANGED <<hash_algorithm, salt_length, key_length, message, encoded,
                   mgfVars, tlsVars>>

NextPss == AddPssPadding \/ VerifyPssPadding

\* the single-bit trials start from arguments add_pss_padding accepts
InitFlip ==
    /\ hash_algorithm \in SupportedHashes
    /\ salt_length \in { IntVal(n) : n \in 0..MaxSaltLen }
    /\ key_length \in
         { IntVal(k) : k \in MinKeyLength..(MinKeyLength + MaxKeyExtra) }
         \cup { IntVal(LargeKeyLength) }
    /\ message = BytesVal(<<97, 98, 180>>)
    /\ encoded = Pending
    /\ signature = Pending
    /\ tamper = NoTamper
    /\ verified = Pending
    /\ IdleMgf
    /\ IdleTls

NextFlip == AddPssPadding \/ VerifyFlipped

SpecFlip == InitFlip /\ [][NextFlip]_vars

SpecPss == InitPss /\ [][NextPss]_vars

-----------------------------------------------------------------------------
(* Properties of the PSS calls.                                            *)

IsTrue(r) == r.t = "bool" /\ r.v

IsFalse(r) == r.t = "bool" /\ ~r.v

\* C1: verify_pss_padding accepts what add_pss_padding produced from the same
\* arguments, whatever hash, salt_length >= 0 (0 included), key_length and
\* salt.
C1_RoundTrip ==
    (tamper.kind = "exact" /\ encoded.t = "bytes") => IsTrue(verified)

\* the round trip of a call with a non-empty salt
C1_RoundTripNonEmptySalt ==
    (tamper.kind = "exact" /\ encoded.t = "bytes" /\ salt_length.v > 0)
        => IsTrue(verified)

C3_EncodedShape ==
    encoded.t = "bytes" =>
        /\ Len(encoded.v) = em_len_of(key_length.v)
        /\ encoded.v[Len(encoded.v)] = 188
        /\ encoded.v[1] < Pow2(8 - zero_bits_of(key_length.v))

\* an encoded message whose DB XOR mask begins with a zero byte
C3_Witness ==
    /\ encoded.t = "bytes"
    /\ LET hl   == hash_length(hash_algorithm)
           mdl  == em_len_of(key_length.v) - hl - 1
           h    == Slice(encoded.v, mdl, mdl + hl)
           m    == mgf1(hash_algorithm, h, mdl).v
           db1  == IF mdl - salt_length.v - 1 > 0 THEN 0 ELSE 1
       IN  m[1] = db1

ContractViolation ==
    \/ message.t # "bytes"
    \/ signature.t # "bytes"
    \/ salt_length.t # "int"
    \/ salt_length.v < 0
    \/ key_length.t # "int"
    \/ key_length.v < MinKeyLength
    \/ hash_algorithm \notin SupportedHashes

\* C4: verify_pss_padding raises exactly when an argument violates the
\* contract add_pss_padding enforces, and returns a boolean otherwise.
C4_RaisesIffContractViolation ==
    verified # Pending => (verified.t = "raise" <=> ContractViolation)

\* on arguments within the contract verify_pss_padding returns a boolean
C4_BooleanWithinContract ==
    (verified # Pending /\ ~ContractViolation) => verified.t = "bool"

\* C10: verify_pss_padding returns true only for a signature of exactly
\* em_len bytes.
C10_ExactLength ==
    IsTrue(verified) => Len(signature.v) = em_len_of(key_length.v)

-----------------------------------------------------------------------------
(* oscrypto/_tls.py                                                        *)

RECURSIVE asn1_int_from_bytes(_)
\* asn1crypto.util.int_from_bytes(value): the unsigned big-endian value,
\* 0 for the empty string
asn1_int_from_bytes(b) ==
    IF b = << >> THEN 0
    ELSE 256 * asn1_int_from_bytes(SubSeq(b, 1, Len(b) - 1)) + b[Len(b)]

\* pointer += 5 + record_length
next_record_skip4(pointer, record_length) == pointer + 4 + record_length

next_record(pointer, record_length) == pointer + 5 + record_length

RECURSIVE record_scan(_, _, _, _)
\* The record loop of extract_chain and get_dh_params_length: the first
\* record of type 0x16 whose payload begins with sub_type.  `visited` lists
\* the offsets the loop has read a header at.
record_scan(buf, pointer, sub_type, visited) ==
    IF ~(pointer < Len(buf))
    THEN [found |-> FALSE, message_bytes |-> << >>, visited |-> visited]
    ELSE
      LET record_header == Slice(buf, pointer, pointer + 5)
          record_type   == Slice(record_header, 0, 1)
          record_length == asn1_int_from_bytes(SliceFrom(record_header, 3))
          sub           == Slice(buf, pointer + 5, pointer + 6)
      IN  IF record_type = <<22>> /\ sub = <<sub_type>>
          THEN [found |-> TRUE,
                message_bytes |->
                    Slice(buf, pointer + 5, pointer + 5 + record_length),
                visited |-> Append(visited, pointer)]
          ELSE record_scan(buf, next_record(pointer, record_length), sub_type,
                           Append(visited, pointer))

\* asn1crypto's Certificate.load(cert_bytes).  The library is outside the
\* repository: it returns a certificate for a DER SEQUENCE (short-form
\* length); on other bytes it raises when `strict` and returns an object
\* holding the bytes otherwise.
Certificate_load(der, strict) ==
    IF Len(der) >= 2 /\ der[1] = 48 /\ Len(der) = 2 + der[2]
    THEN [t |-> "cert", der |-> der]
    ELSE IF strict THEN Raise ELSE [t |-> "cert", der |-> der]

\* where the certificate loop stops: the end of the record's payload
cert_loop_end(message_bytes) == Len(message_bytes)

RECURSIVE cert_loop(_, _, _, _)
\* while pointer < len(message_bytes): ... output.append(Certificate.load(..))
cert_loop(message_bytes, pointer, output, strict) ==
    IF ~(pointer < cert_loop_end(message_bytes)) THEN [t |-> "list", v |-> output]
    ELSE
      LET cert_length == asn1_int_from_bytes(
                             Slice(message_bytes, pointer, pointer + 3))
          cert_start  == pointer + 3
          cert_end    == cert_start + cert_length
          cert        == Certificate_load(
                             Slice(message_bytes, cert_start, cert_end), strict)
      IN  IF cert.t = "raise" THEN Raise
          ELSE cert_loop(message_bytes, cert_end, Append(output, cert), strict)

\* extract_chain(server_handshake_bytes)
extract_chain(server_handshake_bytes, strict) ==
    LET scan == record_scan(server_handshake_bytes, 0, 11, << >>)
    IN  IF scan.found THEN cert_loop(scan.message_bytes, 7, << >>, strict)
        ELSE [t |-> "list", v |-> << >>]

\* get_dh_params_length(server_handshake_bytes)
get_dh_params_length(server_handshake_bytes) ==
    LET scan == record_scan(server_handshake_bytes, 0, 12, << >>)
    IN  IF scan.found
        THEN IntVal(asn1_int_from_bytes(Slice(scan.message_bytes, 4, 6)) * 8)
        ELSE None

\* the protocol table of parse_session_info; "KeyError" for a missing key
protocol_of(version) ==
    CASE version = <<3, 0>> -> "SSLv3"
      [] version = <<3, 1>> -> "TLSv1"
      [] version = <<3, 2>> -> "TLSv1.1"
      [] version = <<3, 3>> -> "TLSv1.2"
      [] version = <<3, 4>> -> "TLSv1.3"
      [] OTHER -> "KeyError"

\* CIPHER_SUITE_MAP of oscrypto/_cipher_suites.py, two of its entries;
\* "KeyError" for a missing key
CIPHER_SUITE_MAP(cipher_suite_bytes) ==
    CASE cipher_suite_bytes = <<0, 47>> -> "TLS_RSA_WITH_AES_128_CBC_SHA"
      [] cipher_suite_bytes = <<192, 47>>
           -> "TLS_ECDHE_RSA_WITH_AES_128_GCM_SHA256"
      [] OTHER -> "KeyError"

\* extension_start += 4 + extension_length
next_extension_ignoring_length(extension_start, extension_length) ==
    extension_start + 4

next_extension(extension_start, extension_length) ==
    extension_start + 4 + extension_length

RECURSIVE extension_scan(_, _, _, _, _)
\* while extension_start < extensions_end: ... if extension_type == 35: ...
\* `found` tells whether a type-35 extension was met, `visited` lists the
\* offsets an extension header was read at.
extension_scan(tls_record, extension_start, extensions_end, found, visited) ==
    IF ~(extension_start < extensions_end)
    THEN [found |-> found, visited |-> visited]
    ELSE
      LET extension_type   == asn1_int_from_bytes(
              Slice(tls_record, extension_start, extension_start + 2))
          extension_length == asn1_int_from_bytes(
              Slice(tls_record, extension_start + 2, extension_start + 4))
      IN  extension_scan(tls_record,
                         next_extension(extension_start, extension_length),
                         extensions_end,
                         found \/ extension_type = 35,
                         Append(visited, extension_start))

\* The extensions block that starts at extensions_length_start, if the
\* record reaches that far.
scan_extensions(tls_record, extensions_length_start) ==
    IF extensions_length_start < Len(tls_record)
    THEN LET extentions_length == asn1_int_from_bytes(
                 Slice(tls_record, extensions_length_start,
                       extensions_length_start + 2))
             extensions_start  == extensions_length_start + 2
             extensions_end    == extensions_start + extentions_length
         IN  extension_scan(tls_record, extensions_start, extensions_end,
                            FALSE, << >>)
    ELSE [found |-> FALSE, visited |-> << >>]

\* server_tls_record / client_tls_record: the payload of the leading record
leading_record(handshake_bytes) ==
    LET tls_record_header == Slice(handshake_bytes, 0, 5)
        tls_record_length == asn1_int_from_bytes(SliceFrom(tls_record_header, 3))
    IN  Slice(handshake_bytes, 5, 5 + tls_record_length)

\* Lines 120-157: what parse_session_info takes from the server's bytes.
server_part(server_handshake_bytes) ==
    LET blank == [raised |-> FALSE, protocol |-> "None",
                  cipher_suite |-> "None", compression |-> FALSE,
                  server_session_id |-> None, session_ticket |-> "None",
                  visited |-> << >>]
        server_tls_record == leading_record(server_handshake_bytes)
    IN
    IF Slice(server_handshake_bytes, 0, 1) # <<22>> THEN blank
    ELSE IF Slice(server_tls_record, 0, 1) # <<2>> THEN blank
    ELSE
      LET protocol           == protocol_of(Slice(server_tls_record, 4, 6))
          session_id_length  == asn1_int_from_bytes(
                                    Slice(server_tls_record, 38, 39))
          server_session_id  ==
              IF session_id_length > 0
              THEN BytesVal(Slice(server_tls_record, 39, 39 + session_id_length))
              ELSE None
          cipher_suite_start == 39 + session_id_length
          cipher_suite       == CIPHER_SUITE_MAP(
              Slice(server_tls_record, cipher_suite_start,
                    cipher_suite_start + 2))
          compression_start  == cipher_suite_start + 2
          compression        ==
              Slice(server_tls_record, compression_start,
                    compression_start + 1) # <<0>>
          scan == scan_extensions(server_tls_record, compression_start + 1)
      IN  IF protocol = "KeyError" \/ cipher_suite = "KeyError"
          THEN [blank EXCEPT !.raised = TRUE]
          ELSE [raised |-> FALSE, protocol |-> protocol,
                cipher_suite |-> cipher_suite, compression |-> compression,
                server_session_id |-> server_session_id,
                session_ticket |-> IF scan.found THEN "new" ELSE "None",
                visited |-> scan.visited]

\* if server_session_id is None and session_ticket is None:
client_scan_wanted(server_session_id, session_ticket) ==
    server_session_id = None /\ session_ticket = "None"

\* Lines 159-190: what parse_session_info takes from the client's bytes.
client_part(client_handshake_bytes, server_session_id, session_ticket) ==
    LET blank == [client_session_id |-> None,
                  session_ticket |-> session_ticket, visited |-> << >>]
        client_tls_record == leading_record(client_handshake_bytes)
    IN
    IF Slice(client_handshake_bytes, 0, 1) # <<22>> THEN blank
    ELSE IF Slice(client_tls_record, 0, 1) # <<1>> THEN blank
    ELSE
      LET session_id_length   == asn1_int_from_bytes(
                                     Slice(client_tls_record, 38, 39))
          client_session_id   ==
              IF session_id_length > 0
              THEN BytesVal(Slice(client_tls_record, 39, 39 + session_id_length))
              ELSE None
          cipher_suite_start  == 39 + session_id_length
          cipher_suite_length == asn1_int_from_bytes(
              Slice(client_tls_record, cipher_suite_start,
                    cipher_suite_start + 2))
          compression_start   == cipher_suite_start + 2 + cipher_suite_length
          compression_length  == asn1_int_from_bytes(
              Slice(client_tls_record, compression_start,
                    compression_start + 1))
          scan == scan_extensions(client_tls_record,
                                  compression_start + 1 + compression_length)
      IN  IF client_scan_wanted(server_session_id, session_ticket)
          THEN [client_session_id |-> client_session_id,
                session_ticket |-> IF scan.found THEN "reused"
                                   ELSE session_ticket,
                visited |-> scan.visited]
          ELSE [blank EXCEPT !.client_session_id = client_session_id]

reconcile_swapped(server_session_id, client_session_id) ==
    IF server_session_id # None
    THEN IF client_session_id = None THEN "new"
         ELSE IF client_session_id.v # server_session_id.v THEN "reused"
         ELSE "new"
    ELSE "None"

\* Lines 192-199: the session id tie-break.
reconcile(server_session_id, client_session_id) ==
    IF server_session_id # None
    THEN IF client_session_id = None THEN "new"
         ELSE IF client_session_id.v # server_session_id.v THEN "new"
         ELSE "reused"
    ELSE "None"

\* parse_session_info(server_handshake_bytes, client_handshake_bytes)
parse_session_info(server_handshake_bytes, client_handshake_bytes) ==
    LET srv == server_part(server_handshake_bytes)
    IN  IF srv.raised THEN Raise
        ELSE
          LET cli == client_part(client_handshake_bytes,
                                 srv.server_session_id, srv.session_ticket)
          IN  [t |-> "dict",
               protocol |-> srv.protocol,
               cipher_suite |-> srv.cipher_suite,
               compression |-> srv.compression,
               session_id |-> reconcile(srv.server_session_id,
                                        cli.client_session_id),
               session_ticket |-> cli.session_ticket]

-----------------------------------------------------------------------------
(* The handshake buffers the TLS functions are applied to.  A buffer is    *)
(* kept as the list of its records, each a description of one record, and  *)
(* is serialised to wire bytes when a function is called.                  *)

BE16(n) == << (n \div 256) % 256, n % 256 >>

BE24(n) == << (n \div 65536) % 256, (n \div 256) % 256, n % 256 >>

RECURSIVE Concat(_)
Concat(ss) == IF ss = << >> THEN << >> ELSE Head(ss) \o Concat(Tail(ss))

NoExtensions == [present |-> FALSE, list |-> << >>, slack |-> 0]

\* an alert record; the other descriptions are variations of it
BlankRecord ==
    [kind |-> "alert", certs |-> << >>, trailing |-> << >>, plen |-> 0,
     version |-> <<3, 3>>, sid |-> << >>, cipher |-> <<0, 47>>, comp |-> 0,
     ext |-> NoExtensions]

\* the wire bytes of an extensions block
ExtensionBytes(ext) ==
    IF ~ext.present THEN << >>
    ELSE LET body == Concat([i \in 1..Len(ext.list) |->
                        BE16(ext.list[i].type) \o BE16(Len(ext.list[i].data))
                        \o ext.list[i].data])
         IN  BE16(Len(body) + ext.slack) \o body

\* a handshake message: type, 3-byte length, body
Handshake(msg_type, body) == <<msg_type>> \o BE24(Len(body)) \o body

\* the payload of a described record
Payload(r) ==
    CASE r.kind = "alert" -> <<2, 40>>
      [] r.kind = "appdata" -> << >>
      [] r.kind = "server_hello" ->
           Handshake(2, r.version \o [i \in 1..32 |-> 170] \o <<Len(r.sid)>>
                        \o r.sid \o r.cipher \o <<r.comp>>
                        \o ExtensionBytes(r.ext))
      [] r.kind = "client_hello" ->
           Handshake(1, r.version \o [i \in 1..32 |-> 85] \o <<Len(r.sid)>>
                        \o r.sid \o BE16(Len(r.cipher)) \o r.cipher
                        \o <<1, 0>> \o ExtensionBytes(r.ext))
      [] r.kind = "certificate" ->
           LET list == Concat([i \in 1..Len(r.certs) |->
                           BE24(Len(r.certs[i])) \o r.certs[i]])
           IN  Handshake(11, BE24(Len(list)) \o list) \o r.trailing
      [] r.kind = "server_key_exchange" ->
           Handshake(12, BE16(r.plen) \o [i \in 1..r.plen |-> 201]
                         \o <<0, 1, 2>>)

RecordType(r) ==
    CASE r.kind = "alert" -> 21
      [] r.kind = "appdata" -> 23
      [] OTHER -> 22

\* the wire bytes of a described record: type, version, length, payload
RecordBytes(r) ==
    <<RecordType(r), 3, 3>> \o BE16(Len(Payload(r))) \o Payload(r)

\* the wire bytes of a described buffer
Wire(records) == Concat([i \in 1..Len(records) |-> RecordBytes(records[i])])

CertA == <<48, 1, 5>>

CertB == <<48, 2, 6, 7>>

\* a ServerHelloDone message following the Certificate message in its record
ServerHelloDone == <<14, 0, 0, 0>>

ScanRecords ==
    { [BlankRecord EXCEPT !.kind = k] : k \in {"alert", "appdata", "server_hello"} }
    \cup { [BlankRecord EXCEPT !.kind = "certificate", !.certs = c] :
             c \in { << >>, <<CertA>>, <<CertA, CertB>>, <<CertB, CertA>> } }
    \cup { [BlankRecord EXCEPT !.kind = "certificate",
                               !.certs = <<CertA, CertB>>,
                               !.trailing = ServerHelloDone] }
    \cup { [BlankRecord EXCEPT !.kind = "server_key_exchange", !.plen = n] :
             n \in {3, 256} }

ScanBuffers == UNION { [1..n -> ScanRecords] : n \in 0..MaxRecords }

InitScan ==
    /\ IdlePss
    /\ IdleMgf
    /\ server_handshake \in ScanBuffers
    /\ client_handshake = << >>
    /\ chain = Pending
    /\ dh_params_length = Pending
    /\ session_info = Pending

ExtractChain ==
    /\ chain = Pending
    /\ \E strict \in BOOLEAN :
         chain' = extract_chain(Wire(server_handshake), strict)
    /\ UNCHANGED <<pssVars, mgfVars, server_handshake, client_handshake,
                   dh_params_length, session_info>>

GetDhParamsLength ==
    /\ dh_params_length = Pending
    /\ dh_params_length' = get_dh_params_length(Wire(server_handshake))
    /\ UNCHANGED <<pssVars, mgfVars, server_handshake, client_handshake,
                   chain, session_info>>

NextScan == ExtractChain \/ GetDhParamsLength

SpecScan == InitScan /\ [][NextScan]_vars

\* the described records that precede the first one of a kind, or all
RECURSIVE Before(_, _)
Before(records, kind) ==
    IF records = << >> THEN << >>
    ELSE IF Head(records).kind = kind THEN << >>
    ELSE <<Head(records)>> \o Before(Tail(records), kind)

Has(records, kind) == \E i \in 1..Len(records) : records[i].kind = kind

\* the first described record of a kind
First(records, kind) == records[Len(Before(records, kind)) + 1]

RECURSIVE Offsets(_, _)
\* the wire offsets of the given records, the first being at `at`
Offsets(records, at) ==
    IF records = << >> THEN << >>
    ELSE <<at>> \o Offsets(Tail(records), at + 5 + Len(Payload(Head(records))))

\* the offsets a scan for `kind` has to read a header at
ExpectedVisits(records, kind) ==
    IF Has(records, kind)
    THEN Offsets(Before(records, kind) \o <<First(records, kind)>>, 0)
    ELSE Offsets(records, 0)

StrictlyIncreasing(q) == \A i \in 1..(Len(q) - 1) : q[i] < q[i + 1]

\* C6: extract_chain returns, in wire order, one certificate for each blob
\* of the certificate list of the first Certificate record, and nothing for
\* the bytes of the record that follow the list.
C6_ChainIsCertificateList ==
    chain # Pending =>
        /\ chain.t = "list"
        /\ LET certs == IF Has(server_handshake, "certificate")
                        THEN First(server_handshake, "certificate").certs
                        ELSE << >>
           IN  /\ Len(chain.v) = Len(certs)
               /\ \A i \in 1..Len(certs) : chain.v[i].der = certs[i]

\* the same when no bytes follow the certificate list in its record
C6_ChainWithoutTrailingBytes ==
    (/\ chain # Pending
     /\ Has(server_handshake, "certificate")
     /\ First(server_handshake, "certificate").trailing = << >>) =>
        /\ chain.t = "list"
        /\ LET certs == First(server_handshake, "certificate").certs
           IN  /\ Len(chain.v) = Len(certs)
               /\ \A i \in 1..Len(certs) : chain.v[i].der = certs[i]

-----------------------------------------------------------------------------
(* The specification of parse_session_info calls.                          *)

SessionIds == { << >>, <<1, 2>>, <<1, 3>>, <<1>> }

Ticket == [type |-> 35, data |-> << >>]

TicketWithData == [type |-> 35, data |-> <<9, 9, 9>>]

\* an extension whose data reads as the header of an empty type-35 extension
Decoy == [type |-> 65281, data |-> <<0, 35, 0, 0>>]

ExtensionBlocks ==
    { NoExtensions }
    \cup { [present |-> TRUE, list |-> l, slack |-> 0] :
             l \in { << >>, <<Ticket>>, <<Decoy>>, <<Decoy, TicketWithData>>,
                     <<TicketWithData, Decoy>> } }
    \cup { [present |-> TRUE, list |-> <<Decoy>>, slack |-> ExtSlack] }

ServerHellos ==
    { [BlankRecord EXCEPT !.kind = "server_hello", !.sid = i, !.ext = e,
                          !.comp = c] :
        i \in SessionIds \ { <<1>> }, e \in ExtensionBlocks, c \in {0, 1} }
    \cup { [BlankRecord EXCEPT !.kind = "server_hello", !.version = <<3, 1>>,
                               !.cipher = <<192, 47>>, !.sid = <<1, 2>>],
           [BlankRecord EXCEPT !.kind = "server_hello", !.version = <<3, 5>>],
           [BlankRecord EXCEPT !.kind = "server_hello", !.cipher = <<255, 255>>] }

ClientHellos ==
    { [BlankRecord EXCEPT !.kind = "client_hello", !.sid = i, !.ext = e,
                          !.cipher = <<0, 47, 192, 47>>] :
        i \in SessionIds, e \in ExtensionBlocks }

\* buffers that do not begin with the expected hello
OtherBuffers ==
    { << >>, <<BlankRecord>>,
      <<[BlankRecord EXCEPT !.kind = "certificate", !.certs = <<CertA>>]>> }

InitSession ==
    /\ IdlePss
    /\ IdleMgf
    /\ server_handshake \in { <<h>> : h \in ServerHellos } \cup OtherBuffers
    /\ client_handshake \in { <<h>> : h \in ClientHellos } \cup OtherBuffers
    /\ chain = Pending
    /\ dh_params_length = Pending
    /\ session_info = Pending

ParseSessionInfo ==
    /\ session_info = Pending
    /\ session_info' = parse_session_info(Wire(server_handshake),
                                          Wire(client_handshake))
    /\ UNCHANGED <<pssVars, mgfVars, server_handshake, client_handshake,
                   chain, dh_params_length>>

NextSession == ParseSessionInfo

SpecSession == InitSession /\ [][NextSession]_vars

IsHello(buffer, kind) == buffer # << >> /\ buffer[1].kind = kind

\* the session id a buffer's hello carries, << >> for none
CarriedSessionId(buffer, kind) ==
    IF IsHello(buffer, kind) THEN buffer[1].sid ELSE << >>

\* whether a buffer's hello lists an extension of type 35
CarriesTicket(buffer, kind) ==
    /\ IsHello(buffer, kind)
    /\ \E i \in 1..Len(buffer[1].ext.list) : buffer[1].ext.list[i].type = 35

\* C5: session_id follows the tie-break table: with a non-empty server
\* session id it is "reused" if the client sent the same id and "new" if the
\* client sent none or another one; without a server session id it is None.
C5_SessionIdTable ==
    session_info.t = "dict" =>
        LET srv == CarriedSessionId(server_handshake, "server_hello")
            cli == CarriedSessionId(client_handshake, "client_hello")
        IN  session_info.session_id =
              IF srv = << >> THEN "None"
              ELSE IF cli # << >> /\ cli = srv THEN "reused"
              ELSE "new"

\* the client presented the session id the server answered with
C5_Witness ==
    /\ session_info.t = "dict"
    /\ session_info.session_id = "reused"
    /\ session_info.protocol = "TLSv1.2"
    /\ session_info.cipher_suite = "TLS_RSA_WITH_AES_128_CBC_SHA"
    /\ ~session_info.compression
    /\ session_info.session_ticket = "None"
    /\ CarriedSessionId(server_handshake, "server_hello") = <<1, 2>>

\* the offsets the scan of a hello's extensions block has to read a header
\* at: one per extension, each 4 + its length after the one before, then
\* every 4 bytes through what the block declares beyond its extensions
RECURSIVE ExtensionOffsets(_, _)
ExtensionOffsets(list, at) ==
    IF list = << >> THEN << >>
    ELSE <<at>> \o ExtensionOffsets(Tail(list), at + 4 + Len(Head(list).data))

ExpectedExtensionVisits(r, first) ==
    LET within == ExtensionOffsets(r.ext.list, first)
        after  == first + Len(ExtensionBytes(r.ext)) - 2
    IN  within \o [i \in 1..CeilDiv(r.ext.slack, 4) |-> after + 4 * (i - 1)]

\* C8: session_ticket is "new" exactly when the ServerHello lists an
\* extension of type 35; it is "reused" exactly when the ServerHello carried
\* neither a session id nor such an extension and the ClientHello lists one;
\* it is None otherwise.  Each scan reads one header per extension, 4 + its
\* length after the one before.
C8_SessionTicket ==
    session_info.t = "dict" =>
        LET srvTicket == CarriesTicket(server_handshake, "server_hello")
            cliTicket == CarriesTicket(client_handshake, "client_hello")
            srvId     == CarriedSessionId(server_handshake, "server_hello")
            srv       == server_part(Wire(server_handshake))
            cli       == client_part(Wire(client_handshake), None, "None")
        IN  /\ session_info.session_ticket =
                 IF srvTicket THEN "new"
                 ELSE IF srvId = << >> /\ cliTicket THEN "reused"
                 ELSE "None"
            /\ IsHello(server_handshake, "server_hello") =>
                 /\ srv.visited = ExpectedExtensionVisits(
                        server_handshake[1], 44 + Len(server_handshake[1].sid))
                 /\ StrictlyIncreasing(srv.visited)
            /\ IsHello(client_handshake, "client_hello") =>
                 /\ cli.visited = ExpectedExtensionVisits(
                        client_handshake[1],
                        45 + Len(client_handshake[1].sid)
                           + Len(client_handshake[1].cipher))
                 /\ StrictlyIncreasing(cli.visited)

\* a ticket was presented by the client and none issued by the server
C8_Witness ==
    /\ session_info.t = "dict"
    /\ session_info.session_ticket = "reused"
    /\ IsHello(server_handshake, "server_hello")
    /\ client_handshake[1].ext.list = <<Decoy, TicketWithData>>

-----------------------------------------------------------------------------
(* The specification of direct mgf1 calls.                                 *)

Seeds == { << >>, <<0>>, <<1, 2, 3>> }

InitMgf ==
    /\ hash_algorithm \in HashNames
    /\ salt_length = IntVal(0)
    /\ key_length = IntVal(0)
    /\ message = BytesVal(<< >>)
    /\ encoded = Pending
    /\ signature = Pending
    /\ tamper = NoTamper
    /\ verified = Pending
    /\ seed \in Seeds
    /\ mask_length \in -1..MaxMaskLen
    /\ mask = Pending
    /\ IdleTls

Mgf1 ==
    /\ mask = Pending
    /\ mask' = mgf1(hash_algorithm, seed, mask_length)
    /\ UNCHANGED <<pssVars, seed, mask_length, tlsVars>>

NextMgf == Mgf1

SpecMgf == InitMgf /\ [][NextMgf]_vars

\* C9: for a supported hash and mask_length n >= 1 mgf1 returns exactly n
\* bytes, byte j (from 0) being byte j mod hash_len of
\* Hash(seed || BE32(j div hash_len)); the result is a byte-wise prefix of
\* mgf1 for every longer mask_length; mask_length < 1 is rejected.
C9_Mgf1Prefix ==
    (mask # Pending /\ hash_algorithm \in SupportedHashes) =>
        IF mask_length < 1 THEN mask.t = "raise"
        ELSE /\ mask.t = "bytes"
             /\ Len(mask.v) = mask_length
             /\ \A j \in 0..(mask_length - 1) :
                  LET hl == hash_length(hash_algorithm)
                      be == << 0, 0, 0, j \div hl >>
                  IN  mask.v[j + 1] =
                        hash_func(hash_algorithm, seed \o be)[(j % hl) + 1]
             /\ \A k \in 1..MaxGrow :
                  LET longer == mgf1(hash_algorithm, seed, mask_length + k)
                  IN  /\ longer.t = "bytes"
                      /\ Len(longer.v) = mask_length + k
                      /\ SubSeq(longer.v, 1, mask_length) = mask.v

\* a mask spanning more than one hash block has been produced
C9_Witness ==
    /\ mask.t = "bytes"
    /\ hash_algorithm = "sha256"
    /\ mask_length = 2 * hash_length("sha256") + 1
    /\ seed = <<1, 2, 3>>

=============================================================================
